---- MODULE Spec2Model ----
(***************************************************************************)
(* A model of scripts/utils/utils.py of PluginCatalogue:                   *)
(*   - request_get: requests.get with retries on connection / ssl errors;  *)
(*   - request_github_api: the conditional (ETag) GitHub API fetch built   *)
(*     on request_get, reporting the rate limit;                           *)
(*   - rewrite_markdown: the rewriting of relative image / link urls of a  *)
(*     parsed markdown document, under the module-level lock.              *)
(* Strings whose characters matter (ETags, urls) are sequences of          *)
(* one-character strings.                                                  *)
(***************************************************************************)
EXTENDS Integers, Sequences, FiniteSets, TLC

\* ------------------------------------------------------------------ bounds
\* the largest retries value a caller passes
MaxRetries == 3
\* the longest ETag header value the server sends
MaxEtagLen == 4

\* the longest url of a node of a document
MaxUrlLen == 4
\* the most trailing slashes of a base url
MaxSlashes == 2
\* the number of threads that call into the module
NumThreads == 2

\* the default of the retries parameter of request_get / request_github_api
DefaultRetries == 3

\* ----------------------------------------------------------- string helpers
Strings(chars, n) == UNION {[1..k -> chars] : k \in 0..n}

Max(a, b) == IF a >= b THEN a ELSE b

\* text.startswith(prefix)
startswith(text, prefix) ==
    /\ Len(text) >= Len(prefix)
    /\ SubSeq(text, 1, Len(prefix)) = prefix

\* text[n:]
slice_from(text, n) == SubSeq(text, n + 1, Len(text))

\* ------------------------------------------------------- values of the code
\* Python's None
None == [type |-> "NoneType"]

\* the exception classes request_get catches and retries
RetryableErrors == {"ConnectionError", "SSLError"}
\* an exception of requests.get outside those classes
OtherErrors == {"ReadTimeout"}

\* the exception object raised by the attempt-th call of requests.get
TransportError(type, attempt) == [type |-> type, attempt |-> attempt]

ETagChars == {"W", "/", "x"}
ETagValues == Strings(ETagChars, MaxEtagLen)
HeaderNames == {"ETag", "X-RateLimit-Remaining", "X-RateLimit-Limit"}
StatusCodes == {200, 304, 500}
\* a body response.json() parses, and one it does not
Contents == {"{}", "<html>"}

ResponseHeaders ==
    { [h \in H |-> CASE h = "ETag" -> e
                     [] h = "X-RateLimit-Remaining" -> <<"5", "9">>
                     [] OTHER -> <<"6", "0">>] :
        H \in SUBSET HeaderNames, e \in ETagValues }

Responses ==
    [type : {"Response"}, status_code : StatusCodes,
     headers : ResponseHeaders, content : Contents]

\* the values the caller passes as retries
RetriesValues == ((0 - 1)..MaxRetries) \cup {DefaultRetries}
\* the values the caller passes as etag: nothing cached, or a cached ETag
EtagArgs == {<<>>, <<"x">>}

\* ------------------------------------------------------------------- state
VARIABLES
    pc,         \* of each thread, where its request_github_api call is:
                \* "idle", "get", "got", "done"
    retries,    \* of each thread: the retries argument of its call
    etag,       \* of each thread: the etag argument of its call
    environ,    \* of each thread: whether its call found github_api_token
                \* in os.environ
    i,          \* of each thread, request_get: the loop variable; it counts
                \* the iterations that ended in the except clause
    err,        \* of each thread, request_get: the last retryable error
                \* caught, or None
    get_calls,  \* of each thread: every requests.get call it made, in
                \* order: the headers sent and the response or exception
    got,        \* of each thread: how its request_get ended
    out,        \* of each thread: how its request_github_api ended
    rate_limit, \* reporter, one for the process: every (remaining, limit)
                \* recorded, in order
    error_log,  \* log.error, one for the process: the status codes logged
    json_calls, \* of each thread: the number of response.json() calls
    md_pc,      \* rewrite_markdown, of each thread: "idle", "acquire",
                \* "locked", "done"
    md_args,    \* rewrite_markdown, of each thread: content, repos_url,
                \* raw_url as passed
    repos_url,  \* rewrite_markdown, of each thread: repos_url after rstrip
    raw_url,    \* rewrite_markdown, of each thread: raw_url after rstrip
    lock,       \* whether __rewrite_markdown_lock is held
    md_out,     \* of each thread: how its rewrite_markdown call ended
    md_log,     \* of each thread: the rewrites its call logged with
                \* log.info, in order
    md_first    \* of each thread: what its first call returned, once it
                \* calls again with that as the content; None before

http_vars == <<pc, retries, etag, environ, i, err, get_calls, got, out,
               rate_limit, error_log, json_calls>>
md_vars == <<md_pc, md_args, repos_url, raw_url, lock, md_out, md_log,
             md_first>>
vars == <<http_vars, md_vars>>

\* the threads of the process; the first is the only caller unless threads
\* are said to run concurrently
Threads == 1..NumThreads
MainThread == CHOOSE t \in Threads : \A u \in Threads : t <= u

Returned(value) == [how |-> "return", value |-> value]
Raised(exc) == [how |-> "raise", exc |-> exc]
Running == [how |-> "running"]

HttpInit ==
    /\ pc = [t \in Threads |-> "idle"]
    /\ retries = [t \in Threads |-> DefaultRetries]
    /\ etag = [t \in Threads |-> <<>>]
    /\ environ = [t \in Threads |-> FALSE]
    /\ i = [t \in Threads |-> 0]
    /\ err = [t \in Threads |-> None]
    /\ get_calls = [t \in Threads |-> <<>>]
    /\ got = [t \in Threads |-> Running]
    /\ out = [t \in Threads |-> Running]
    /\ rate_limit = <<>>
    /\ error_log = <<>>
    /\ json_calls = [t \in Threads |-> 0]

\* ------------------------------------------------------------- request_get
\* a loop over range(retries), without the clamp
attempt_budget_unclamped(r) == r

\* range(max(1, retries)): the number of iterations of the loop
attempt_budget(r) == Max(1, r)

\* the headers request_github_api builds; <<"t">> stands for the token
build_headers(e, token) ==
    IF token
    THEN [name \in {"If-None-Match", "Authorization"} |->
            IF name = "If-None-Match" THEN e ELSE <<"t">>]
    ELSE [name \in {"If-None-Match"} |-> e]

\* one call of requests.get: the headers it sends and how it ends
requests_get(headers, result) == [headers |-> headers, result |-> result]

\* thread t calls request_github_api with one of the given arguments: the
\* call builds the headers and enters request_get
Call(t, retries_values, etags) ==
    /\ pc[t] = "idle"
    /\ pc' = [pc EXCEPT ![t] = "get"]
    /\ \E r \in retries_values : retries' = [retries EXCEPT ![t] = r]
    /\ \E e \in etags : etag' = [etag EXCEPT ![t] = e]
    /\ \E token \in BOOLEAN : environ' = [environ EXCEPT ![t] = token]
    /\ i' = [i EXCEPT ![t] = 0]
    /\ err' = [err EXCEPT ![t] = None]
    /\ UNCHANGED <<get_calls, got, out, rate_limit, error_log, json_calls>>

\* an iteration that keeps the response and goes on with the loop
AttemptKeepsLooping(t, responses) ==
    /\ pc[t] = "get"
    /\ i[t] < attempt_budget(retries[t])
    /\ \E response \in responses :
          get_calls' = [get_calls EXCEPT ![t] =
              Append(@, requests_get(build_headers(etag[t], environ[t]),
                                     response))]
    /\ i' = [i EXCEPT ![t] = @ + 1]
    /\ UNCHANGED <<pc, retries, etag, environ, err, got, out, rate_limit,
                   error_log, json_calls>>

\* one iteration of the loop of thread t whose requests.get returns one of
\* the given responses
AttemptReturns(t, responses) ==
    /\ pc[t] = "get"
    /\ i[t] < attempt_budget(retries[t])
    /\ \E response \in responses :
          /\ get_calls' = [get_calls EXCEPT ![t] =
                Append(@, requests_get(build_headers(etag[t], environ[t]),
                                       response))]
          /\ got' = [got EXCEPT ![t] = Returned(response)]
    /\ pc' = [pc EXCEPT ![t] = "got"]
    /\ UNCHANGED <<retries, etag, environ, i, err, out, rate_limit,
                   error_log, json_calls>>

\* an except clause that catches every exception
is_caught_always(type) == TRUE

\* whether the except clause of the loop catches an exception of this type
is_caught(type) == type \in RetryableErrors

\* an except clause that keeps the exception in a variable of the module,
\* one for all the calls
AttemptRaisesSharedErr(t, types) ==
    /\ pc[t] = "get"
    /\ i[t] < attempt_budget(retries[t])
    /\ \E type \in types :
          LET e == TransportError(type, i[t] + 1)
          IN  /\ get_calls' = [get_calls EXCEPT ![t] =
                    Append(@, requests_get(
                                  build_headers(etag[t], environ[t]), e))]
              /\ IF is_caught(type)
                 THEN /\ err' = [u \in Threads |-> e]
                      /\ i' = [i EXCEPT ![t] = @ + 1]
                      /\ UNCHANGED <<pc, got>>
                 ELSE /\ got' = [got EXCEPT ![t] = Raised(e)]
                      /\ pc' = [pc EXCEPT ![t] = "got"]
                      /\ UNCHANGED <<i, err>>
    /\ UNCHANGED <<retries, etag, environ, out, rate_limit, error_log,
                   json_calls>>

\* an except clause that drops the exception it catches
AttemptRaisesForgets(t, types) ==
    /\ pc[t] = "get"
    /\ i[t] < attempt_budget(retries[t])
    /\ \E type \in types :
          LET e == TransportError(type, i[t] + 1)
          IN  /\ get_calls' = [get_calls EXCEPT ![t] =
                    Append(@, requests_get(
                                  build_headers(etag[t], environ[t]), e))]
              /\ IF is_caught(type)
                 THEN /\ i' = [i EXCEPT ![t] = @ + 1]
                      /\ UNCHANGED <<pc, got>>
                 ELSE /\ got' = [got EXCEPT ![t] = Raised(e)]
                      /\ pc' = [pc EXCEPT ![t] = "got"]
                      /\ UNCHANGED i
    /\ UNCHANGED <<retries, etag, environ, err, out, rate_limit, error_log,
                   json_calls>>

\* one iteration of the loop of thread t whose requests.get raises an
\* exception of one of the given types
AttemptRaises(t, types) ==
    /\ pc[t] = "get"
    /\ i[t] < attempt_budget(retries[t])
    /\ \E type \in types :
          LET e == TransportError(type, i[t] + 1)
          IN  /\ get_calls' = [get_calls EXCEPT ![t] =
                    Append(@, requests_get(
                                  build_headers(etag[t], environ[t]), e))]
              /\ IF is_caught(type)
                 THEN /\ err' = [err EXCEPT ![t] = e]
                      /\ i' = [i EXCEPT ![t] = @ + 1]
                      /\ UNCHANGED <<pc, got>>
                 ELSE /\ got' = [got EXCEPT ![t] = Raised(e)]
                      /\ pc' = [pc EXCEPT ![t] = "got"]
                      /\ UNCHANGED <<i, err>>
    /\ UNCHANGED <<retries, etag, environ, out, rate_limit, error_log,
                   json_calls>>

\* raising a generic error that wraps the last one
after_loop_wrapping(e) ==
    IF e # None THEN Raised([type |-> "Exception", cause |-> e])
    ELSE Returned(None)

\* what follows the loop: raise err from None, or fall off the end
after_loop(e) == IF e # None THEN Raised(e) ELSE Returned(None)

LoopExit(t) ==
    /\ pc[t] = "get"
    /\ i[t] >= attempt_budget(retries[t])
    /\ got' = [got EXCEPT ![t] = after_loop(err[t])]
    /\ pc' = [pc EXCEPT ![t] = "got"]
    /\ UNCHANGED <<retries, etag, environ, i, err, get_calls, out,
                   rate_limit, error_log, json_calls>>

\* ------------------------------------------------------ request_github_api
KeyError(key) == [type |-> "KeyError", key |-> key]

\* response.headers[name]: the value, or the KeyError of a missing header
has_header(response, name) == name \in DOMAIN response.headers

\* a normalisation that leaves the weak-validator prefix in place
strip_weak_prefix_never(new_etag) == new_etag

\* if new_etag.startswith('W/'): new_etag = new_etag[2:]
strip_weak_prefix(new_etag) ==
    IF startswith(new_etag, <<"W", "/">>) THEN slice_from(new_etag, 2)
    ELSE new_etag

\* whether response.json() parses the body
is_json(content) == content = "{}"

\* response.json() of a body it parses
json_of(content) == [type |-> "dict", text |-> content]

\* the status codes answered by returning (None, new_etag)
is_not_modified(status_code) == status_code = 304

\* a check that lets every status code through to response.json()
is_ok_always(status_code) == TRUE

\* the status codes whose body is parsed
is_ok(status_code) == status_code = 200

\* the tuple reporter.record_rate_limit receives
rate_limit_record(response) ==
    <<response.headers["X-RateLimit-Remaining"],
      response.headers["X-RateLimit-Limit"]>>

\* a report made only after the status code is found to be 200 or 304
reaches_report_after_status(response) ==
    /\ has_header(response, "ETag")
    /\ has_header(response, "X-RateLimit-Remaining")
    /\ has_header(response, "X-RateLimit-Limit")
    /\ response.status_code \in {200, 304}

\* whether the call reaches reporter.record_rate_limit with this response
reaches_report(response) ==
    /\ has_header(response, "ETag")
    /\ has_header(response, "X-RateLimit-Remaining")
    /\ has_header(response, "X-RateLimit-Limit")

\* an interpretation that rejects every status code but 200 first
interpret_status_200_first(response, new_etag) ==
    IF ~is_ok(response.status_code)
    THEN Raised([type |-> "Exception",
                 status_code |-> response.status_code,
                 content |-> response.content])
    ELSE IF is_json(response.content)
    THEN Returned(<<json_of(response.content), new_etag>>)
    ELSE Raised([type |-> "JSONDecodeError"])

\* how the status code of a response with all three headers is interpreted
interpret_status(response, new_etag) ==
    IF is_not_modified(response.status_code)
    THEN Returned(<<None, new_etag>>)
    ELSE IF ~is_ok(response.status_code)
    THEN Raised([type |-> "Exception",
                 status_code |-> response.status_code,
                 content |-> response.content])
    ELSE IF is_json(response.content)
    THEN Returned(<<json_of(response.content), new_etag>>)
    ELSE Raised([type |-> "JSONDecodeError"])

\* whether the call reaches response.json() with this response
reaches_json(response) ==
    /\ reaches_report(response)
    /\ ~is_not_modified(response.status_code)
    /\ is_ok(response.status_code)

\* response.headers.get('ETag', ''): a missing ETag read as an empty one
api_outcome_default_etag(response) ==
    IF ~has_header(response, "X-RateLimit-Remaining")
    THEN Raised(KeyError("X-RateLimit-Remaining"))
    ELSE IF ~has_header(response, "X-RateLimit-Limit")
    THEN Raised(KeyError("X-RateLimit-Limit"))
    ELSE interpret_status(response,
            IF has_header(response, "ETag")
            THEN strip_weak_prefix(response.headers["ETag"]) ELSE <<>>)

\* response.headers.get for the two rate-limit headers: a missing one is
\* read as an empty value
api_outcome_default_limits(response) ==
    IF ~has_header(response, "ETag") THEN Raised(KeyError("ETag"))
    ELSE interpret_status(response, strip_weak_prefix(response.headers["ETag"]))

\* how request_github_api ends on the response request_get returned
api_outcome(response) ==
    IF ~has_header(response, "ETag") THEN Raised(KeyError("ETag"))
    ELSE IF ~has_header(response, "X-RateLimit-Remaining")
    THEN Raised(KeyError("X-RateLimit-Remaining"))
    ELSE IF ~has_header(response, "X-RateLimit-Limit")
    THEN Raised(KeyError("X-RateLimit-Limit"))
    ELSE interpret_status(response, strip_weak_prefix(response.headers["ETag"]))

\* the request_get of thread t raised: request_github_api does not catch it
ApiPropagates(t) ==
    /\ pc[t] = "got"
    /\ got[t].how = "raise"
    /\ out' = [out EXCEPT ![t] = got[t]]
    /\ pc' = [pc EXCEPT ![t] = "done"]
    /\ UNCHANGED <<retries, etag, environ, i, err, get_calls, got,
                   rate_limit, error_log, json_calls>>

\* the request_get of thread t returned: the rest of request_github_api
ApiProcess(t) ==
    /\ pc[t] = "got"
    /\ got[t].how = "return"
    /\ LET response == got[t].value
       IN  IF response = None
           THEN /\ out' = [out EXCEPT ![t] =
                             Raised([type |-> "AttributeError"])]
                /\ UNCHANGED <<rate_limit, error_log, json_calls>>
           ELSE /\ out' = [out EXCEPT ![t] = api_outcome(response)]
                /\ error_log' =
                     IF has_header(response, "ETag") THEN error_log
                     ELSE Append(error_log, response.status_code)
                /\ rate_limit' =
                     IF reaches_report(response)
                     THEN Append(rate_limit, rate_limit_record(response))
                     ELSE rate_limit
                /\ json_calls' =
                     IF reaches_json(response)
                     THEN [json_calls EXCEPT ![t] = @ + 1]
                     ELSE json_calls
    /\ pc' = [pc EXCEPT ![t] = "done"]
    /\ UNCHANGED <<retries, etag, environ, i, err, get_calls, got>>

\* -------------------------------------------------------- rewrite_markdown
\* the characters of the urls of a document: a word character, and the
\* characters rewrite_url tells apart
UrlChars == {"a", ":", "/", "#", "."}
\* the characters of the model that \w matches
WordChars == {"a", "r", "w"}

\* a node of the tree mistletoe.Document builds. url stands for the src of
\* an Image, the target of a Link or an AutoLink, the content of a RawText.
Node(kind, url, children) ==
    [kind |-> kind, url |-> url, children |-> children]
Paragraph(children) == Node("Paragraph", <<>>, children)
Document(children) == Node("Document", <<>>, children)

\* the urls of the nodes: every string up to MaxUrlLen, and a scheme
\* followed by every string up to MaxUrlLen - 2
Urls ==
    Strings(UrlChars, MaxUrlLen)
    \cup {<<"a", ":", "/", "/">> \o u : u \in Strings(UrlChars, MaxUrlLen - 2)}
\* the urls of the nodes of a document with two url nodes
FewUrls == {<<>>, <<".">>, <<"#", "a">>, <<"a">>, <<"a", ":", "/", "/", "a">>}
\* Image and Link, and a span with a target that is neither
UrlKinds == {"Image", "Link", "AutoLink"}

\* the documents rewritten, each as the tree mistletoe.Document builds of
\* the content after content.replace('\r\n', '\n'): one url node; an image
\* inside a link; two url nodes in two paragraphs
Documents ==
    {Document(<<Paragraph(<<Node(k, u, <<>>)>>)>>) :
        k \in UrlKinds, u \in Urls}
    \cup {Document(<<Paragraph(<<Node("Link", u,
                                     <<Node("Image", v, <<>>)>>)>>)>>) :
        u \in FewUrls, v \in FewUrls}
    \cup {Document(<<Paragraph(<<Node(k1, u, <<>>)>>),
                     Paragraph(<<Node(k2, v, <<>>)>>)>>) :
        k1 \in UrlKinds, k2 \in UrlKinds, u \in FewUrls, v \in FewUrls}

Slashes(n) == [j \in 1..n |-> "/"]
\* the base urls passed: an absolute one, a relative one, and a scheme
\* alone, with trailing slashes
ReposUrls ==
    {stem \o Slashes(n) :
        stem \in {<<"a", ":", "/", "/", "r">>, <<"r">>, <<"a", ":">>},
        n \in 0..MaxSlashes}
RawUrls ==
    {<<"a", ":", "/", "/", "w">> \o Slashes(n) : n \in 0..MaxSlashes}

MdInit ==
    /\ md_pc = [t \in Threads |-> "idle"]
    /\ md_args = [t \in Threads |-> None]
    /\ repos_url = [t \in Threads |-> <<>>]
    /\ raw_url = [t \in Threads |-> <<>>]
    /\ lock = FALSE
    /\ md_out = [t \in Threads |-> Running]
    /\ md_log = [t \in Threads |-> <<>>]
    /\ md_first = [t \in Threads |-> None]

Init == HttpInit /\ MdInit

\* text.rstrip('/')
RECURSIVE rstrip(_)
rstrip(text) ==
    IF text # <<>> /\ text[Len(text)] = "/"
    THEN rstrip(SubSeq(text, 1, Len(text) - 1))
    ELSE text

\* the match of a pattern that lacks the colon, ^\w+//
pattern_match_no_colon(url) ==
    \E n \in 1..Len(url) :
        /\ \A j \in 1..n : url[j] \in WordChars
        /\ Len(url) >= n + 2
        /\ SubSeq(url, n + 1, n + 2) = <<"/", "/">>

\* pattern.match(url), pattern = re.compile(r'^\w+://', re.ASCII)
pattern_match(url) ==
    \E n \in 1..Len(url) :
        /\ \A j \in 1..n : url[j] \in WordChars
        /\ Len(url) >= n + 3
        /\ SubSeq(url, n + 1, n + 3) = <<":", "/", "/">>

\* a rewrite_url that keeps only the empty url of the urls without a scheme
rewrite_url_only_empty(url, rewrite_base) ==
    IF ~pattern_match(url)
    THEN IF url = <<>> THEN url ELSE rewrite_base \o <<"/">> \o url
    ELSE url

rewrite_url(url, rewrite_base) ==
    IF ~pattern_match(url)
    THEN IF url \in {<<>>, <<".">>} \/ startswith(url, <<"#">>)
         THEN url
         ELSE rewrite_base \o <<"/">> \o url
    ELSE url

RECURSIVE rewrite_children(_, _, _)
\* rewrite_children with the two bases exchanged
rewrite_children_swapped(node, repos, raw) ==
    LET rewritten ==
            IF node.kind = "Image"
            THEN [node EXCEPT !.url = rewrite_url(@, repos)]
            ELSE IF node.kind = "Link"
            THEN [node EXCEPT !.url = rewrite_url(@, raw)]
            ELSE node
    IN  [rewritten EXCEPT !.children =
            [j \in 1..Len(@) |-> rewrite_children(@[j], repos, raw)]]

\* rewrite_children that does not go below an Image or a Link
rewrite_children_no_descent(node, repos, raw) ==
    IF node.kind = "Image"
    THEN [node EXCEPT !.url = rewrite_url(@, raw)]
    ELSE IF node.kind = "Link"
    THEN [node EXCEPT !.url = rewrite_url(@, repos)]
    ELSE [node EXCEPT !.children =
            [j \in 1..Len(@) |-> rewrite_children(@[j], repos, raw)]]

\* rewrite_children(node): the node after the traversal, repos and raw being
\* the repos_url and raw_url of the enclosing rewrite_markdown
rewrite_children(node, repos, raw) ==
    LET rewritten ==
            IF node.kind = "Image"
            THEN [node EXCEPT !.url = rewrite_url(@, raw)]
            ELSE IF node.kind = "Link"
            THEN [node EXCEPT !.url = rewrite_url(@, repos)]
            ELSE node
    IN  [rewritten EXCEPT !.children =
            [j \in 1..Len(@) |-> rewrite_children(@[j], repos, raw)]]

\* the log.info record of one rewrite
rewrite_record(repos, url, new_url) ==
    [repos_url |-> repos, url |-> url, new_url |-> new_url]

RECURSIVE rewrite_log(_, _, _)
RECURSIVE children_log(_, _, _, _)
\* the records rewrite_children(child) logs for the children from the j-th on
children_log(children, j, repos, raw) ==
    IF j > Len(children) THEN <<>>
    ELSE rewrite_log(children[j], repos, raw)
         \o children_log(children, j + 1, repos, raw)

\* the records rewrite_children(node) logs, in the order of the traversal
rewrite_log(node, repos, raw) ==
    LET base == IF node.kind = "Image" THEN raw ELSE repos
        own == IF /\ node.kind \in {"Image", "Link"}
                  /\ rewrite_url(node.url, base) # node.url
               THEN <<rewrite_record(repos, node.url,
                                     rewrite_url(node.url, base))>>
               ELSE <<>>
    IN  own \o children_log(node.children, 1, repos, raw)

\* thread t calls rewrite_markdown with one of the given contents and bases:
\* the bases are stripped before the lock is taken
MdCall(t, contents, repos_urls, raw_urls) ==
    /\ md_pc[t] = "idle"
    /\ \E content \in contents, repos \in repos_urls, raw \in raw_urls :
          /\ md_args' = [md_args EXCEPT ![t] =
                           [content |-> content, repos_url |-> repos,
                            raw_url |-> raw]]
          /\ repos_url' = [repos_url EXCEPT ![t] = rstrip(repos)]
          /\ raw_url' = [raw_url EXCEPT ![t] = rstrip(raw)]
    /\ md_pc' = [md_pc EXCEPT ![t] = "acquire"]
    /\ md_log' = [md_log EXCEPT ![t] = <<>>]
    /\ UNCHANGED <<lock, md_out, md_first>>

\* thread t calls rewrite_markdown again, with what its first call returned
\* as the content and with the same bases
MdCallAgain(t) ==
    /\ md_pc[t] = "done"
    /\ md_out[t].how = "return"
    /\ md_first[t] = None
    /\ md_first' = [md_first EXCEPT ![t] = md_out[t].value]
    /\ md_args' = [md_args EXCEPT ![t].content = md_out[t].value]
    /\ repos_url' = [repos_url EXCEPT ![t] = rstrip(md_args[t].repos_url)]
    /\ raw_url' = [raw_url EXCEPT ![t] = rstrip(md_args[t].raw_url)]
    /\ md_pc' = [md_pc EXCEPT ![t] = "acquire"]
    /\ md_log' = [md_log EXCEPT ![t] = <<>>]
    /\ UNCHANGED <<lock, md_out>>

\* with __rewrite_markdown_lock: thread t takes the lock when it is free
\* entering the body without waiting for the lock
MdAcquireNoWait(t) ==
    /\ md_pc[t] = "acquire"
    /\ lock' = TRUE
    /\ md_pc' = [md_pc EXCEPT ![t] = "locked"]
    /\ UNCHANGED <<md_args, repos_url, raw_url, md_out, md_log, md_first>>

MdAcquire(t) ==
    /\ md_pc[t] = "acquire"
    /\ ~lock
    /\ lock' = TRUE
    /\ md_pc' = [md_pc EXCEPT ![t] = "locked"]
    /\ UNCHANGED <<md_args, repos_url, raw_url, md_out, md_log, md_first>>

\* the body of the with block: parse, rewrite_children, render; the lock is
\* released on the way out
MdBody(t) ==
    /\ md_pc[t] = "locked"
    /\ md_out' = [md_out EXCEPT ![t] =
                    Returned(rewrite_children(md_args[t].content,
                                              repos_url[t], raw_url[t]))]
    /\ md_log' = [md_log EXCEPT ![t] =
                    rewrite_log(md_args[t].content, repos_url[t], raw_url[t])]
    /\ lock' = FALSE
    /\ md_pc' = [md_pc EXCEPT ![t] = "done"]
    /\ UNCHANGED <<md_args, repos_url, raw_url, md_first>>

\* a body that raises and leaves the lock held: acquire() and release()
\* around the body, without with or try/finally
MdBodyRaisesKeepsLock(t) ==
    /\ md_pc[t] = "locked"
    /\ md_out' = [md_out EXCEPT ![t] = Raised([type |-> "Exception"])]
    /\ md_pc' = [md_pc EXCEPT ![t] = "done"]
    /\ UNCHANGED <<md_args, repos_url, raw_url, lock, md_log, md_first>>

\* the body of the with block raises: the lock is released on the way out
MdBodyRaises(t) ==
    /\ md_pc[t] = "locked"
    /\ md_out' = [md_out EXCEPT ![t] = Raised([type |-> "Exception"])]
    /\ lock' = FALSE
    /\ md_pc' = [md_pc EXCEPT ![t] = "done"]
    /\ UNCHANGED <<md_args, repos_url, raw_url, md_log, md_first>>

Next ==
    \/ Call(MainThread, RetriesValues, EtagArgs) /\ UNCHANGED md_vars
    \/ AttemptReturns(MainThread, Responses) /\ UNCHANGED md_vars
    \/ AttemptRaises(MainThread, RetryableErrors \cup OtherErrors)
          /\ UNCHANGED md_vars
    \/ LoopExit(MainThread) /\ UNCHANGED md_vars
    \/ ApiPropagates(MainThread) /\ UNCHANGED md_vars
    \/ ApiProcess(MainThread) /\ UNCHANGED md_vars

\* the calls of request_github_api by one thread
Spec == Init /\ [][Next]_vars

MdNext ==
    \/ MdCall(MainThread, Documents, ReposUrls, RawUrls)
          /\ UNCHANGED http_vars
    \/ MdCallAgain(MainThread) /\ UNCHANGED http_vars
    \/ MdAcquire(MainThread) /\ UNCHANGED http_vars
    \/ MdBody(MainThread) /\ UNCHANGED http_vars
    \/ MdBodyRaises(MainThread) /\ UNCHANGED http_vars

\* the calls of rewrite_markdown by one thread
SpecRewrite == Init /\ [][MdNext]_vars

\* the documents and bases of the calls that run concurrently
ThreadDocuments ==
    { Document(<<Paragraph(<<Node(kind, <<"a">>, <<>>)>>)>>) :
        kind \in {"Image", "Link"} }
ThreadReposUrls == {<<"a", ":", "/", "/", "r">>}
ThreadRawUrls == {<<"a", ":", "/", "/", "w">>}

ThreadsNext ==
    \E t \in Threads :
        \/ MdCall(t, ThreadDocuments, ThreadReposUrls, ThreadRawUrls)
              /\ UNCHANGED http_vars
        \/ MdCallAgain(t) /\ UNCHANGED http_vars
        \/ MdAcquire(t) /\ UNCHANGED http_vars
        \/ MdBody(t) /\ UNCHANGED http_vars
        \/ MdBodyRaises(t) /\ UNCHANGED http_vars

\* the calls of rewrite_markdown by all the threads, interleaved
SpecThreads == Init /\ [][ThreadsNext]_vars

\* the same under the scheduling of threads: a thread that can take the
\* lock, or that is in the body, is not held back for ever
FairSpecThreads ==
    /\ SpecThreads
    /\ \A t \in Threads :
           /\ WF_vars(MdAcquire(t) /\ UNCHANGED http_vars)
           /\ WF_vars((MdBody(t) \/ MdBodyRaises(t)) /\ UNCHANGED http_vars)

\* the two threads that call request_github_api at the same time
Callers == {MainThread, MainThread + 1}
\* the arguments and the outcomes of requests.get of the concurrent calls
CallersRetries == {1, 2}
CallersEtags == {<<"x">>}
CallersResponses ==
    { r \in Responses :
        /\ r.status_code = 200
        /\ r.content = "{}"
        /\ DOMAIN r.headers = HeaderNames
        /\ r.headers["ETag"] = <<"W", "/", "x">> }

CallersNext ==
    \E t \in Callers :
        \/ Call(t, CallersRetries, CallersEtags) /\ UNCHANGED md_vars
        \/ AttemptReturns(t, CallersResponses) /\ UNCHANGED md_vars
        \/ AttemptRaises(t, RetryableErrors \cup OtherErrors)
              /\ UNCHANGED md_vars
        \/ LoopExit(t) /\ UNCHANGED md_vars
        \/ ApiPropagates(t) /\ UNCHANGED md_vars
        \/ ApiProcess(t) /\ UNCHANGED md_vars

\* two calls of request_github_api by two threads, interleaved
SpecCallers == Init /\ [][CallersNext]_vars

\* ------------------------------------------------------------ the claims
IsResponse(result) == result.type = "Response"
IsRetryable(result) == result.type \in {"ConnectionError", "SSLError"}
Ended == pc[MainThread] \in {"got", "done"}
\* max(1, retries), spelled out
Budget == IF retries[MainThread] < 1 THEN 1 ELSE retries[MainThread]

\* C1: when attempts 1..k-1 fail with a connection or ssl error and attempt
\* k (k <= the budget) gets a response, request_get returns that response
\* without raising, and attempt k is the last one made.
C1_FirstResponseReturned ==
    \A k \in 1..Len(get_calls[MainThread]) :
        ( /\ \A j \in 1..(k - 1) : IsRetryable(get_calls[MainThread][j].result)
          /\ IsResponse(get_calls[MainThread][k].result) )
        => /\ k <= Budget
           /\ Len(get_calls[MainThread]) = k
           /\ Ended
           /\ got[MainThread] = Returned(get_calls[MainThread][k].result)

C1_Witness ==
    /\ pc[MainThread] = "done"
    /\ retries[MainThread] = 3
    /\ Len(get_calls[MainThread]) = 3
    /\ get_calls[MainThread][1].result.type = "ConnectionError"
    /\ get_calls[MainThread][2].result.type = "ConnectionError"
    /\ IsResponse(get_calls[MainThread][3].result)
    /\ got[MainThread] = Returned(get_calls[MainThread][3].result)

\* C2: an attempt that fails with an exception that is neither a connection
\* nor an ssl error is the last attempt, whatever budget remains, and that
\* exception is what request_get, and so request_github_api, raises.
C2_OtherErrorPropagates ==
    \A k \in 1..Len(get_calls[MainThread]) :
        LET result == get_calls[MainThread][k].result
        IN  (~IsResponse(result) /\ ~IsRetryable(result))
            => /\ Len(get_calls[MainThread]) = k
               /\ Ended
               /\ got[MainThread] = Raised(result)
               /\ result.attempt = k
               /\ pc[MainThread] = "done" => out[MainThread] = Raised(result)

C2_Witness ==
    /\ pc[MainThread] = "done"
    /\ retries[MainThread] = 3
    /\ Len(get_calls[MainThread]) = 1
    /\ get_calls[MainThread][1].result.type = "ReadTimeout"
    /\ out[MainThread] = Raised(get_calls[MainThread][1].result)

\* C3: when every attempt fails with a connection or ssl error, request_get
\* raises only once the whole budget is used, and it raises the exception of
\* the last attempt itself: its type, and no earlier attempt's exception.
C3_LastErrorRaised ==
    LET n == Len(get_calls[MainThread])
        AllRetryable ==
            \A k \in 1..n : IsRetryable(get_calls[MainThread][k].result)
    IN  /\ (Ended /\ AllRetryable)
            => /\ n = Budget
               /\ got[MainThread] = Raised(get_calls[MainThread][n].result)
               /\ got[MainThread].exc.attempt = n
        /\ (got[MainThread].how = "raise" /\ IsRetryable(got[MainThread].exc))
            => (n = Budget /\ AllRetryable)

C3_Witness ==
    /\ pc[MainThread] = "done"
    /\ retries[MainThread] = 3
    /\ Len(get_calls[MainThread]) = 3
    /\ get_calls[MainThread][1].result.type = "SSLError"
    /\ get_calls[MainThread][2].result.type = "SSLError"
    /\ get_calls[MainThread][3].result.type = "ConnectionError"
    /\ got[MainThread] = Raised(TransportError("ConnectionError", 3))

\* C4: for every retries value, zero and negative ones included, a call
\* makes at least one and at most max(1, retries) attempts.
C4_AttemptsWithinBudget ==
    /\ Len(get_calls[MainThread]) <= Budget
    /\ Ended => Len(get_calls[MainThread]) >= 1
    /\ (Ended /\ retries[MainThread] < 1) => Len(get_calls[MainThread]) = 1

C4_Witness ==
    /\ pc[MainThread] = "done"
    /\ retries[MainThread] < 0
    /\ Len(get_calls[MainThread]) = 1

\* the response request_get returned to request_github_api, when it did
GotResponse ==
    got[MainThread].how = "return" /\ IsResponse(got[MainThread].value)
HasAll(response) == DOMAIN response.headers = HeaderNames
\* the response is the one response of the call, and the last requests.get
OneResponseConsumed ==
    /\ Len(get_calls[MainThread]) >= 1
    /\ get_calls[MainThread][Len(get_calls[MainThread])].result
         = got[MainThread].value
    /\ \A k \in 1..(Len(get_calls[MainThread]) - 1) :
           ~IsResponse(get_calls[MainThread][k].result)

\* C5: a response without the ETag header makes request_github_api raise,
\* whatever its status code; nothing is returned and no request follows.
C5_MissingETagFails ==
    (pc[MainThread] = "done" /\ GotResponse
       /\ "ETag" \notin DOMAIN got[MainThread].value.headers)
    => /\ out[MainThread] = Raised(KeyError("ETag"))
       /\ error_log = <<got[MainThread].value.status_code>>
       /\ OneResponseConsumed

C5_Witness ==
    /\ pc[MainThread] = "done"
    /\ GotResponse
    /\ got[MainThread].value.status_code = 200
    /\ DOMAIN got[MainThread].value.headers = HeaderNames \ {"ETag"}
    /\ out[MainThread] = Raised(KeyError("ETag"))

\* C6 as claimed: after every call in which requests.get returned a
\* response, the rate limit has been reported, whatever the outcome.
C6_ReportedAfterEveryResponse ==
    (pc[MainThread] = "done" /\ GotResponse) => Len(rate_limit) = 1

\* C6 as amended: the rate limit is reported once, with the values of the
\* two rate-limit headers, after every response that carries ETag and both
\* rate-limit headers, whatever its status code and whether or not the call
\* then fails; a response that lacks one of the three headers reports nothing.
C6_ReportedWhenHeadersPresent ==
    (pc[MainThread] = "done" /\ GotResponse)
    => IF HasAll(got[MainThread].value)
       THEN rate_limit =
              << <<got[MainThread].value.headers["X-RateLimit-Remaining"],
                   got[MainThread].value.headers["X-RateLimit-Limit"]>> >>
       ELSE rate_limit = <<>>

C6_Witness ==
    /\ pc[MainThread] = "done"
    /\ GotResponse
    /\ HasAll(got[MainThread].value)
    /\ got[MainThread].value.status_code = 500
    /\ out[MainThread].how = "raise"
    /\ rate_limit = << <<(<<"5", "9">>), (<<"6", "0">>)>> >>

\* C7 as claimed: the etag of every returned result never begins with W/.
C7_ReturnedEtagNeverWeak ==
    (pc[MainThread] = "done" /\ out[MainThread].how = "return")
    => ~( /\ Len(out[MainThread].value[2]) >= 2
          /\ out[MainThread].value[2][1] = "W"
          /\ out[MainThread].value[2][2] = "/" )

\* C7 as amended: the etag of every returned result is the response's ETag
\* with one leading W/ removed when it has one, and the ETag itself
\* otherwise; it begins with W/ only when the response's ETag begins with
\* W/W/.
C7_ReturnedEtagStrippedOnce ==
    (pc[MainThread] = "done" /\ out[MainThread].how = "return")
    => LET sent == got[MainThread].value.headers["ETag"]
           new_etag == out[MainThread].value[2]
           Weak(t) == Len(t) >= 2 /\ t[1] = "W" /\ t[2] = "/"
       IN  /\ Weak(sent) => sent = <<"W", "/">> \o new_etag
           /\ ~Weak(sent) => new_etag = sent
           /\ Weak(new_etag) <=> (Weak(sent) /\ Weak(Tail(Tail(sent))))

C7_Witness ==
    /\ pc[MainThread] = "done"
    /\ out[MainThread].how = "return"
    /\ got[MainThread].value.headers["ETag"] = <<"W", "/", "x">>
    /\ out[MainThread].value[2] = <<"x">>

\* C8: a 304 response that carries the three headers makes the call return
\* None with the new etag, stripped, and response.json() is not called.
C8_NotModifiedUnchanged ==
    (pc[MainThread] = "done" /\ GotResponse /\ HasAll(got[MainThread].value)
       /\ got[MainThread].value.status_code = 304)
    => /\ out[MainThread].how = "return"
       /\ out[MainThread].value[1] = None
       /\ LET sent == got[MainThread].value.headers["ETag"]
          IN  IF Len(sent) >= 2 /\ sent[1] = "W" /\ sent[2] = "/"
              THEN out[MainThread].value[2] = Tail(Tail(sent))
              ELSE out[MainThread].value[2] = sent
       /\ json_calls[MainThread] = 0

C8_Witness ==
    /\ pc[MainThread] = "done"
    /\ GotResponse
    /\ got[MainThread].value.status_code = 304
    /\ got[MainThread].value.content = "<html>"
    /\ HasAll(got[MainThread].value)
    /\ got[MainThread].value.headers["ETag"] = <<"W", "/", "x">>
    /\ out[MainThread] = Returned(<<None, <<"x">> >>)
    /\ json_calls[MainThread] = 0

\* C9 as claimed: a response whose status is outside {200, 304} makes the
\* call raise an error that carries the status code and the body.
C9_UnexpectedStatusError ==
    (pc[MainThread] = "done" /\ GotResponse
       /\ got[MainThread].value.status_code \notin {200, 304})
    => /\ out[MainThread].how = "raise"
       /\ out[MainThread].exc.type = "Exception"
       /\ out[MainThread].exc.status_code = got[MainThread].value.status_code
       /\ out[MainThread].exc.content = got[MainThread].value.content

\* C9 as amended: a response whose status is outside {200, 304} makes the
\* call raise, without a retry (that response is the only one consumed and
\* the last requests.get) and without a result or a parse of the body; the
\* error carries the status code and the body when the response carries ETag
\* and both rate-limit headers, and is the KeyError of the first missing
\* header otherwise.
C9_UnexpectedStatusFails ==
    (pc[MainThread] = "done" /\ GotResponse
       /\ got[MainThread].value.status_code \notin {200, 304})
    => /\ out[MainThread].how = "raise"
       /\ OneResponseConsumed
       /\ json_calls[MainThread] = 0
       /\ HasAll(got[MainThread].value)
            => out[MainThread].exc = [type |-> "Exception",
                          status_code |-> got[MainThread].value.status_code,
                          content |-> got[MainThread].value.content]
       /\ ~HasAll(got[MainThread].value)
            => /\ out[MainThread].exc.type = "KeyError"
               /\ out[MainThread].exc.key
                    \notin DOMAIN got[MainThread].value.headers

C9_Witness ==
    /\ pc[MainThread] = "done"
    /\ retries[MainThread] = 3
    /\ Len(get_calls[MainThread]) = 1
    /\ GotResponse
    /\ got[MainThread].value.status_code = 500
    /\ HasAll(got[MainThread].value)
    /\ out[MainThread].how = "raise"
    /\ out[MainThread].exc.type = "Exception"
    /\ out[MainThread].exc.status_code = 500

\* a url that matches ^\w+://
HasScheme(p) ==
    \E n \in 1..(Len(p) - 3) :
        /\ \A j \in 1..n : p[j] \notin {":", "/", "#", "."}
        /\ p[n + 1] = ":" /\ p[n + 2] = "/" /\ p[n + 3] = "/"
\* a relative url: no scheme, not empty, not '.', not starting with '#'
Relative(p) ==
    /\ ~HasScheme(p)
    /\ p # <<>>
    /\ p # <<".">>
    /\ p[1] # "#"
\* a base url without its trailing slashes
Stripped(b) ==
    LET k == CHOOSE k \in 0..Len(b) :
                 /\ k = 0 \/ b[k] # "/"
                 /\ \A j \in (k + 1)..Len(b) : b[j] = "/"
    IN  SubSeq(b, 1, k)

RECURSIVE C10_NodeRewritten(_, _, _)
C10_NodeRewritten(args, before, after) ==
    LET raw == Stripped(args.raw_url)
        repos == Stripped(args.repos_url)
    IN  /\ after.kind = before.kind
        /\ (before.kind = "Image" /\ Relative(before.url))
             => /\ after.url = raw \o <<"/">> \o before.url
                /\ after.url # repos \o <<"/">> \o before.url
        /\ (before.kind = "Link" /\ Relative(before.url))
             => /\ after.url = repos \o <<"/">> \o before.url
                /\ after.url # raw \o <<"/">> \o before.url
        /\ Len(after.children) = Len(before.children)
        /\ \A j \in 1..Len(before.children) :
               C10_NodeRewritten(args, before.children[j],
                                 after.children[j])

\* C10: in the document a rewrite_markdown call returns, every image node
\* whose source p was relative has the source raw_url + '/' + p and every
\* link node whose target p was relative has the target repos_url + '/' + p,
\* each base without its trailing slashes; no image gets the repos base and
\* no link the raw base.
C10_RelativeUrlsRewritten ==
    \A t \in Threads :
        (md_pc[t] = "done" /\ md_out[t].how = "return")
        => C10_NodeRewritten(md_args[t], md_args[t].content, md_out[t].value)

C10_Witness ==
    /\ md_pc[MainThread] = "done"
    /\ md_args[MainThread].repos_url = <<"a", ":", "/", "/", "r", "/", "/">>
    /\ md_args[MainThread].raw_url = <<"a", ":", "/", "/", "w", "/">>
    /\ md_args[MainThread].content =
         Document(<<Paragraph(<<Node("Link", <<"a">>,
                                     <<Node("Image", <<"a">>, <<>>)>>)>>)>>)
    /\ md_out[MainThread] =
         Returned(Document(<<Paragraph(<<
            Node("Link", <<"a", ":", "/", "/", "r", "/", "a">>,
                 <<Node("Image", <<"a", ":", "/", "/", "w", "/", "a">>,
                        <<>>)>>)>>)>>))

\* a url rewriting leaves alone: it has a scheme, is empty, is '.', or
\* starts with '#'
KeptAsIs(p) ==
    \/ HasScheme(p)
    \/ p = <<>>
    \/ p = <<".">>
    \/ (p # <<>> /\ p[1] = "#")

RECURSIVE C11_NodeKept(_, _)
C11_NodeKept(before, after) ==
    /\ (before.kind \in {"Image", "Link"} /\ KeptAsIs(before.url))
         => after.url = before.url
    /\ Len(after.children) = Len(before.children)
    /\ \A j \in 1..Len(before.children) :
           C11_NodeKept(before.children[j], after.children[j])

\* C11: in the document a rewrite_markdown call returns, every image source
\* and every link target that matches ^\w+://, is empty, is '.' or starts
\* with '#' is the one of the content, whatever the two base urls.
C11_OtherUrlsUnchanged ==
    \A t \in Threads :
        (md_pc[t] = "done" /\ md_out[t].how = "return")
        => C11_NodeKept(md_args[t].content, md_out[t].value)

C11_Witness ==
    /\ md_pc[MainThread] = "done"
    /\ md_args[MainThread].repos_url = <<"r", "/">>
    /\ md_args[MainThread].content =
         Document(<<Paragraph(<<Node("Link", <<"#", "a">>,
                      <<Node("Image", <<"a", ":", "/", "/", "a">>,
                             <<>>)>>)>>)>>)
    /\ md_out[MainThread] = Returned(md_args[MainThread].content)

\* the call of thread t that has just ended is its second one, on the
\* document its first one returned, and it returned too
RewrittenTwice(t) ==
    /\ md_pc[t] = "done"
    /\ md_first[t] # None
    /\ md_out[t].how = "return"

\* C12 as claimed: for every document and every pair of base urls, a second
\* rewrite of what a first rewrite returned returns the same.
C12_RewriteIdempotent ==
    \A t \in Threads : RewrittenTwice(t) => md_out[t].value = md_first[t]

\* C12 as amended: when both base urls still match ^\w+:// once their
\* trailing slashes are removed, a second rewrite with the same base urls
\* leaves every image source and link target of what the first rewrite
\* returned unchanged.
C12_AbsoluteBasesIdempotent ==
    \A t \in Threads :
        ( /\ RewrittenTwice(t)
          /\ HasScheme(Stripped(md_args[t].repos_url))
          /\ HasScheme(Stripped(md_args[t].raw_url)) )
        => md_out[t].value = md_first[t]

C12_Witness ==
    /\ RewrittenTwice(MainThread)
    /\ md_args[MainThread].repos_url = <<"a", ":", "/", "/", "r", "/">>
    /\ md_first[MainThread] =
         Document(<<Paragraph(<<Node("Link",
                      <<"a", ":", "/", "/", "r", "/", "a">>, <<>>)>>)>>)
    /\ md_out[MainThread].value = md_first[MainThread]

RECURSIVE C16_Visited(_, _, _)
\* the node after the call, given the node before it: an image or a link
\* prefixed once when its url is relative, anything else as it was
C16_Visited(args, before, after) ==
    LET base == IF before.kind = "Image" THEN Stripped(args.raw_url)
                ELSE Stripped(args.repos_url)
    IN  /\ after.kind = before.kind
        /\ IF before.kind \in {"Image", "Link"} /\ Relative(before.url)
           THEN after.url = base \o <<"/">> \o before.url
           ELSE after.url = before.url
        /\ Len(after.children) = Len(before.children)
        /\ \A j \in 1..Len(before.children) :
               C16_Visited(args, before.children[j], after.children[j])

RECURSIVE C16_RelativeNodes(_)
RECURSIVE C16_RelativeBelow(_, _)
C16_RelativeBelow(children, j) ==
    IF j > Len(children) THEN 0
    ELSE C16_RelativeNodes(children[j]) + C16_RelativeBelow(children, j + 1)
\* the number of image and link nodes with a relative url in a tree
C16_RelativeNodes(node) ==
    (IF node.kind \in {"Image", "Link"} /\ Relative(node.url) THEN 1 ELSE 0)
    + C16_RelativeBelow(node.children, 1)

\* C16: the traversal reaches every image and link node of the tree, nested
\* ones included, once: in the document a call returns every relative url
\* carries its base once, every other node is as it was, and the call has
\* logged one rewrite for each image or link node with a relative url.
C16_EveryNodeVisitedOnce ==
    \A t \in Threads :
        (md_pc[t] = "done" /\ md_out[t].how = "return")
        => /\ C16_Visited(md_args[t], md_args[t].content, md_out[t].value)
           /\ Len(md_log[t]) = C16_RelativeNodes(md_args[t].content)
           /\ \A k \in 1..Len(md_log[t]) :
                  /\ Relative(md_log[t][k].url)
                  /\ md_log[t][k].new_url # md_log[t][k].url

C16_Witness ==
    /\ md_pc[MainThread] = "done"
    /\ md_first[MainThread] = None
    /\ md_args[MainThread].content =
         Document(<<Paragraph(<<Node("Link", <<"a">>,
                                     <<Node("Image", <<"a">>, <<>>)>>)>>)>>)
    /\ md_args[MainThread].repos_url = <<"a", ":", "/", "/", "r">>
    /\ md_args[MainThread].raw_url = <<"a", ":", "/", "/", "w">>
    /\ md_out[MainThread].how = "return"
    /\ md_log[MainThread] =
         <<rewrite_record(<<"a", ":", "/", "/", "r">>, <<"a">>,
                          <<"a", ":", "/", "/", "r", "/", "a">>),
           rewrite_record(<<"a", ":", "/", "/", "r">>, <<"a">>,
                          <<"a", ":", "/", "/", "w", "/", "a">>)>>

\* C17: request_get ends by returning a response or by raising, for every
\* retries value and every sequence of attempt outcomes: when the loop is
\* over an error has been caught, so the call never falls off its end and
\* never returns None, and request_github_api never reads a None response.
C17_ReturnsResponseOrRaises ==
    /\ (pc[MainThread] = "get" /\ i[MainThread] >= Budget)
         => err[MainThread] # None
    /\ Ended => \/ got[MainThread].how = "raise"
                \/ /\ got[MainThread].how = "return"
                   /\ got[MainThread].value # None
                   /\ IsResponse(got[MainThread].value)
    /\ pc[MainThread] = "done"
         => out[MainThread] # Raised([type |-> "AttributeError"])

C17_Witness ==
    /\ pc[MainThread] = "got"
    /\ retries[MainThread] = 0
    /\ i[MainThread] = 1
    /\ Len(get_calls[MainThread]) = 1
    /\ err[MainThread] = TransportError("SSLError", 1)
    /\ got[MainThread] = Raised(TransportError("SSLError", 1))

\* C18: a response that carries ETag but lacks X-RateLimit-Remaining or
\* X-RateLimit-Limit makes request_github_api raise the KeyError of the
\* first of the two that is missing, whatever the status code, 200 and 304
\* included: nothing is returned, nothing is reported to the reporter, the
\* body is not parsed and nothing is logged as an error.
C18_MissingRateLimitFails ==
    (pc[MainThread] = "done" /\ GotResponse
       /\ "ETag" \in DOMAIN got[MainThread].value.headers
       /\ ~HasAll(got[MainThread].value))
    => LET missing ==
               IF "X-RateLimit-Remaining"
                      \notin DOMAIN got[MainThread].value.headers
               THEN "X-RateLimit-Remaining" ELSE "X-RateLimit-Limit"
       IN  /\ out[MainThread] = Raised(KeyError(missing))
           /\ rate_limit = <<>>
           /\ json_calls[MainThread] = 0
           /\ error_log = <<>>

C18_Witness ==
    /\ pc[MainThread] = "done"
    /\ GotResponse
    /\ got[MainThread].value.status_code = 200
    /\ got[MainThread].value.content = "{}"
    /\ DOMAIN got[MainThread].value.headers
         = {"ETag", "X-RateLimit-Remaining"}
    /\ out[MainThread] = Raised(KeyError("X-RateLimit-Limit"))
    /\ rate_limit = <<>>

\* the threads inside the parse, traverse and serialize sequence
InBody == {t \in Threads : md_pc[t] = "locked"}

\* C13: under every interleaving of the calls of the threads, at most one
\* call is inside the parse, traverse and serialize sequence, and that call
\* holds the lock; a call enters the sequence only from a state in which no
\* call is inside it, and a call waiting for the lock stays where it is as
\* long as another call is inside.
C13_MutualExclusion ==
    /\ [](Cardinality(InBody) <= 1)
    /\ [](InBody # {} => lock)
    /\ [][\A t \in Threads :
             (md_pc[t] = "acquire" /\ md_pc'[t] # "acquire")
             => (InBody = {} /\ ~lock /\ lock' /\ md_pc'[t] = "locked")]_vars

C13_Witness ==
    \E t, u \in Threads :
        /\ t # u
        /\ md_pc[t] = "locked"
        /\ md_pc[u] = "acquire"
        /\ lock

\* C14: the lock is held only while a call is inside the body: the step that
\* ends a call leaves the lock free, whether the body returned or raised,
\* and no call that has ended holds it; so every call that waits for the
\* lock acquires it in the end.
C14_LockReleased ==
    /\ [](lock => InBody # {})
    /\ [][\A t \in Threads :
             (md_pc[t] = "locked" /\ md_pc'[t] = "done") => ~lock']_vars
    /\ \A t \in Threads : (md_pc[t] = "acquire") ~> (md_pc[t] = "locked")

C14_Witness ==
    \E t, u \in Threads :
        /\ t # u
        /\ md_pc[t] = "done"
        /\ md_out[t] = Raised([type |-> "Exception"])
        /\ md_pc[u] = "locked"
        /\ lock

RECURSIVE C15_Alone(_, _, _, _)
\* request_get run on its own, allowed n attempts, against the outcomes of
\* requests.get from the k-th on, the last error caught being `last`: the
\* number of attempts it makes and how it ends (Running when the outcomes
\* run out first)
C15_Alone(n, results, k, last) ==
    IF k > n
    THEN [attempts |-> k - 1,
          got |-> IF last = None THEN Returned(None) ELSE Raised(last)]
    ELSE IF k > Len(results)
    THEN [attempts |-> k - 1, got |-> Running]
    ELSE IF IsResponse(results[k])
    THEN [attempts |-> k, got |-> Returned(results[k])]
    ELSE IF IsRetryable(results[k])
    THEN C15_Alone(n, results, k + 1, results[k])
    ELSE [attempts |-> k, got |-> Raised(results[k])]

\* C15: under every interleaving of two calls, each call makes the attempts,
\* and returns the result or raises the error, that it would have made,
\* returned or raised had it run alone against the outcomes of its own
\* requests.get calls, and every request carries the call's own headers.
C15_CallsIndependent ==
    \A t \in Callers :
        LET results == [k \in 1..Len(get_calls[t]) |-> get_calls[t][k].result]
            alone == C15_Alone(IF retries[t] < 1 THEN 1 ELSE retries[t],
                               results, 1, None)
        IN  /\ alone.attempts = Len(get_calls[t])
            /\ pc[t] \in {"got", "done"} => alone.got = got[t]
            /\ pc[t] \in {"idle", "get"}
                 => /\ got[t] = Running
                    /\ alone.got \in {Running, Raised(err[t])}
            /\ \A k \in 1..Len(get_calls[t]) :
                   get_calls[t][k].headers
                     = build_headers(etag[t], environ[t])
            /\ pc[t] = "done"
                 => out[t] = IF got[t].how = "raise" THEN got[t]
                             ELSE api_outcome(got[t].value)

C15_Witness ==
    \E t, u \in Callers :
        /\ t # u
        /\ pc[t] = "got"
        /\ retries[t] = 2
        /\ got[t] = Raised(TransportError("ConnectionError", 2))
        /\ pc[u] = "get"
        /\ retries[u] = 2
        /\ err[u] = TransportError("SSLError", 1)

====
